---- MODULE Spec2Model ----
(***************************************************************************)
(* GameContainer.tsx: the host component that loads a generated game into  *)
(* an iframe, analyses and rewrites its HTML, and listens to the messages  *)
(* the game posts back.                                                    *)
(*                                                                         *)
(* Text is modelled as a sequence of tokens, each token a chunk of         *)
(* characters that no regular expression or marker of the component can    *)
(* match across a token boundary except as written in the operators below. *)
(* The Chinese score labels are written in pinyin: "zhengque" (correct),   *)
(* "cuowu" (wrong), "jindu" (progress).                                    *)
(***************************************************************************)
EXTENDS Integers, Sequences, FiniteSets, TLC

VARIABLES
    gameData,       \* props.gameData.html, a token sequence; << >> is falsy
    effectPending,  \* rendered with a new gameData, useEffect not yet run
    isLoading,      \* useState(false)
    gameStatus,     \* useState('empty')
    gameScore,      \* useState({correct: 0, wrong: 0, progress: 0})
    suggestions,    \* useState([])
    srcdoc,         \* iframeRef.current.srcdoc
    onload,         \* iframeRef.current.onload: the closure and what it captured
    loadPending,    \* the iframe is navigating; its load event has not fired
    listeners,      \* window's 'message' listeners, in registration order
    channel,        \* messages posted by the content, not yet delivered
    delivered,      \* the last 'message' event on the host window and what
                    \* its handlers did (see Deliver)
    loads,          \* number of srcdoc assignments so far
    posts,          \* number of messages posted so far
    isFullscreen,   \* useState(false)
    fullscreenElement,  \* document.fullscreenElement is set
    fullscreenEvent,    \* a fullscreenchange event is to be dispatched
    download,       \* the html handed to the last download
    dom,            \* the elements of the iframe's document, in document order
    win,            \* the iframe window's innerWidth and innerHeight
    layout,         \* the styles the last handleResize set
    lastCall        \* the last window.alert / window.confirm call in the iframe

hostVars == <<gameData, effectPending, isLoading, gameStatus, gameScore, suggestions,
              srcdoc, onload, loadPending, listeners, channel, delivered, loads,
              posts>>

chromeVars == <<isFullscreen, fullscreenElement, fullscreenEvent, download>>

contentVars == <<dom, win, layout, lastCall>>

vars == <<hostVars, chromeVars, contentVars>>

----------------------------------------------------------------------------
(* Bounds of the model *)

MaxLoads == 2
MaxPosts == 2
MaxInFlight == 1
MaxInjectLen == 3
MaxFragments == 2

----------------------------------------------------------------------------
(* Sequences *)

RECURSIVE SeqsUpTo(_, _)
SeqsUpTo(S, n) ==
    IF n = 0 THEN {<< >>}
    ELSE LET shorter == SeqsUpTo(S, n - 1)
         IN  shorter \cup {Append(s, x) : s \in shorter, x \in S}

Range(s) == {s[i] : i \in 1..Len(s)}

\* s has t as a contiguous subsequence starting at position i
OccursAt(s, t, i) ==
    /\ i >= 1
    /\ i + Len(t) - 1 <= Len(s)
    /\ \A k \in 1..Len(t) : s[i + k - 1] = t[k]

Occurrences(s, t) == {i \in 1..Len(s) : OccursAt(s, t, i)}

----------------------------------------------------------------------------
(* Score text and the score parser *)

Digits == {"0", "1", "2", "3", "4", "5", "6", "7", "8", "9"}
DigitVal(d) ==
    CASE d = "0" -> 0 [] d = "1" -> 1 [] d = "2" -> 2 [] d = "3" -> 3 [] d = "4" -> 4
      [] d = "5" -> 5 [] d = "6" -> 6 [] d = "7" -> 7 [] d = "8" -> 8 [] d = "9" -> 9
Separators == {":", " "}
Labels == {"zhengque", "cuowu", "jindu"}

\* the end (exclusive) of the longest run of tokens in S starting at i
RECURSIVE RunEnd(_, _, _)
RunEnd(t, i, S) ==
    IF i <= Len(t) /\ t[i] \in S THEN RunEnd(t, i + 1, S) ELSE i

\* parseInt of a run of decimal digits
RECURSIVE parseInt(_)
parseInt(ds) ==
    IF ds = << >> THEN 0
    ELSE parseInt(SubSeq(ds, 1, Len(ds) - 1)) * 10 + DigitVal(ds[Len(ds)])

\* /label[:\s]*(\d+)/ tried at position i
MatchesAt(t, label, i) ==
    /\ t[i] = label
    /\ LET j == RunEnd(t, i + 1, Separators)
       IN  j <= Len(t) /\ t[j] \in Digits

\* scoreText.match(/label[:\s]*(\d+)/i): the leftmost match and its capture
match(t, label) ==
    LET at == {i \in 1..Len(t) : MatchesAt(t, label, i)}
    IN  IF at = {} THEN [found |-> FALSE, capture |-> << >>]
        ELSE LET i == CHOOSE i \in at : \A k \in at : i <= k
                 j == RunEnd(t, i + 1, Separators)
             IN  [found |-> TRUE,
                  capture |-> SubSeq(t, j, RunEnd(t, j, Digits) - 1)]

Undefined == [defined |-> FALSE, text |-> << >>]
Str(t) == [defined |-> TRUE, text |-> t]

\* a JavaScript value used as a condition: undefined and '' are falsy
Truthy(v) == v.defined /\ v.text # << >>

\* the numbers after the labels for correct and wrong exchanged
handleScoreUpdate_Swapped(data, captured) ==
    LET score == IF data.isObject THEN data.score ELSE Undefined
    IN  IF Truthy(score)
        THEN LET scoreText == score.text
                 correctMatch == match(scoreText, "cuowu")
                 wrongMatch == match(scoreText, "zhengque")
                 progressMatch == match(scoreText, "jindu")
             IN  [called |-> TRUE,
                  threw |-> FALSE,
                  value |-> [correct |-> IF correctMatch.found
                                         THEN parseInt(correctMatch.capture)
                                         ELSE captured.correct,
                             wrong |-> IF wrongMatch.found
                                       THEN parseInt(wrongMatch.capture)
                                       ELSE captured.wrong,
                             progress |-> IF progressMatch.found
                                          THEN parseInt(progressMatch.capture)
                                          ELSE captured.progress]]
        ELSE [called |-> FALSE, threw |-> FALSE, value |-> captured]

\* handleScoreUpdate(data) run in a closure whose gameScore is `captured`:
\* the value passed to setGameScore, if it is called
handleScoreUpdate(data, captured) ==
    LET score == IF data.isObject THEN data.score ELSE Undefined   \* data?.score
    IN  IF Truthy(score)
        THEN LET scoreText == score.text
                 correctMatch == match(scoreText, "zhengque")
                 wrongMatch == match(scoreText, "cuowu")
                 progressMatch == match(scoreText, "jindu")
             IN  [called |-> TRUE,
                  threw |-> FALSE,
                  value |-> [correct |-> IF correctMatch.found
                                         THEN parseInt(correctMatch.capture)
                                         ELSE captured.correct,
                             wrong |-> IF wrongMatch.found
                                       THEN parseInt(wrongMatch.capture)
                                       ELSE captured.wrong,
                             progress |-> IF progressMatch.found
                                          THEN parseInt(progressMatch.capture)
                                          ELSE captured.progress]]
        ELSE [called |-> FALSE, threw |-> FALSE, value |-> captured]

----------------------------------------------------------------------------
(* The enhancement injector *)

\* The template literal of injectGameEnhancements. It starts with a newline
\* and six spaces and ends with a newline and four spaces, so its first five
\* characters equal its last five: "nl4" is that chunk, and "enh" is the rest
\* (two spaces, the <script> element, the <style> element). It holds no '$',
\* so String.prototype.replace inserts it literally, and neither marker.
enhancements == <<"nl4", "enh", "nl4">>

\* html.includes(marker)
includes(html, marker) == marker \in Range(html)

\* html.indexOf(marker), 1-based; 0 when absent
indexOf(html, marker) ==
    IF includes(html, marker)
    THEN CHOOSE i \in 1..Len(html) :
            html[i] = marker /\ \A k \in 1..(i - 1) : html[k] # marker
    ELSE 0

\* every occurrence replaced, as with a /g pattern
RECURSIVE replace_All(_, _, _)
replace_All(html, marker, replacement) ==
    IF html = << >> THEN << >>
    ELSE (IF Head(html) = marker THEN replacement ELSE <<Head(html)>>)
         \o replace_All(Tail(html), marker, replacement)

\* html.replace(marker, replacement) with a string pattern: the first
\* occurrence only
replace(html, marker, replacement) ==
    LET i == indexOf(html, marker)
    IN  IF i = 0 THEN html
        ELSE SubSeq(html, 1, i - 1) \o replacement \o SubSeq(html, i + 1, Len(html))

\* the tiers tried in the other order
injectGameEnhancements_BodyFirst(html) ==
    IF includes(html, "<body>")
    THEN replace(html, "<body>", <<"<head>">> \o enhancements \o <<"</head>", "<body>">>)
    ELSE IF includes(html, "</head>")
    THEN replace(html, "</head>", enhancements \o <<"</head>">>)
    ELSE enhancements \o html

injectGameEnhancements(html) ==
    IF includes(html, "</head>")
    THEN replace(html, "</head>", enhancements \o <<"</head>">>)
    ELSE IF includes(html, "<body>")
    THEN replace(html, "<body>", <<"<head>">> \o enhancements \o <<"</head>", "<body>">>)
    ELSE enhancements \o html

InjectTokens == {"</head>", "<body>", "<head>", "nl4", "enh", "x"}
InjectInputs == SeqsUpTo(InjectTokens, MaxInjectLen) \ {<< >>}

----------------------------------------------------------------------------
(* The heuristic analyzer *)

\* Tokens of the analysed text, by the characters the rules look for.
\* "zuo" is the character for left; "zuoyouanniu" is the phrase
\* "left and right buttons", which holds that character too.
WhiteSpace == {" ", "nl"}                       \* \s
HasGt == {">", "</button>"}                     \* tokens ending with '>'
HasLt == {"<button", "</button>", "<", "<meta "}  \* tokens holding '<'
HasCloseParen == {")", "getBoundingClientRect()"}   \* tokens ending with ')'
ZuoYou == {"zuo", "zuoyouanniu"}                \* tokens holding left or right
Mentions == {"zuoyouanniu", "left button"}
DirWords == {"ArrowLeft", "left button", "top"} \* left|right|top|bottom, any case
AnalyzeDigits == {"5"}

\* the first position after i whose token is in S; Len(t) + 1 when none
RECURSIVE FirstIn(_, _, _)
FirstIn(t, i, S) ==
    IF i > Len(t) \/ t[i] \in S THEN i ELSE FirstIn(t, i + 1, S)

\* /zuoyouanniu|...|left\s*button|right\s*button/i
mentionsButtons(html) == Range(html) \cap Mentions # {}

\* /<button[^>]*>[^<]*zuo|<button[^>]*>[^<]*you/i
hasLeftRightButtons(html) ==
    \E i \in 1..Len(html) :
        /\ html[i] = "<button"
        /\ LET j == FirstIn(html, i + 1, HasGt)
           IN  \E k \in (j + 1)..Len(html) :
                  /\ html[k] \in ZuoYou
                  /\ \A m \in (j + 1)..(k - 1) : html[m] \notin HasLt

\* /ArrowLeft|ArrowRight/
hasArrowKeys(html) == "ArrowLeft" \in Range(html)

\* /getBoundingClientRect\(\)/ and /(left|right|top|bottom)/i
usesAABB(html) ==
    /\ "getBoundingClientRect()" \in Range(html)
    /\ Range(html) \cap DirWords # {}

\* /Math\.abs\([^)]*\)\s*<\s*\d+/
usesDistance(html) ==
    \E i \in 1..Len(html) :
        /\ html[i] = "Math.abs("
        /\ LET j == FirstIn(html, i + 1, HasCloseParen)
               k == RunEnd(html, j + 1, WhiteSpace)
               l == RunEnd(html, k + 1, WhiteSpace)
           IN  /\ l <= Len(html)
               /\ html[k] = "<"
               /\ html[l] \in AnalyzeDigits

\* /body\s*\{[^}]*?(display\s*:\s*flex|overflow\s*:\s*hidden)/i
setsBodyLayout(html) ==
    \E i \in 1..Len(html) :
        /\ html[i] = "body"
        /\ LET k == RunEnd(html, i + 1, WhiteSpace)
           IN  /\ k <= Len(html)
               /\ html[k] = "{"
               /\ \E m \in (k + 1)..Len(html) :
                     /\ html[m] = "display:flex"
                     /\ \A n \in (k + 1)..(m - 1) : html[n] # "}"

\* /(class="game-area")|(id="game-container")/i
hasGameArea(html) == "class=game-area" \in Range(html)

\* /charset=.*utf-8/i: '.' does not match a line break
hasUtf8Charset(html) ==
    \E i \in 1..Len(html) : \E j \in (i + 1)..Len(html) :
        /\ html[i] = "charset="
        /\ html[j] = "utf-8"
        /\ \A m \in (i + 1)..(j - 1) : html[m] # "nl"

Diag(cond, level, text) ==
    IF cond THEN <<[level |-> level, text |-> text]>> ELSE << >>

\* rule 5 looked at only when rule 4 stayed silent, and rule 6 before rule 5
analyzeGameHtml_Entangled(html) ==
    Diag(mentionsButtons(html) /\ ~hasLeftRightButtons(html), "warning", "buttons")
    \o Diag(~hasArrowKeys(html), "info", "arrowKeys")
    \o Diag(~usesAABB(html) /\ usesDistance(html), "warning", "collision")
    \o Diag(setsBodyLayout(html), "info", "bodyLayout")
    \o Diag(~hasUtf8Charset(html), "warning", "charset")
    \o Diag(~setsBodyLayout(html) /\ ~hasGameArea(html), "info", "gameArea")

\* rule 6 testing for a charset of any encoding
analyzeGameHtml_AnyCharset(html) ==
    Diag(mentionsButtons(html) /\ ~hasLeftRightButtons(html), "warning", "buttons")
    \o Diag(~hasArrowKeys(html), "info", "arrowKeys")
    \o Diag(~usesAABB(html) /\ usesDistance(html), "warning", "collision")
    \o Diag(setsBodyLayout(html), "info", "bodyLayout")
    \o Diag(~hasGameArea(html), "info", "gameArea")
    \o Diag("charset=" \notin Range(html), "warning", "charset")

\* rule 3 without its look at the bounding-box check
analyzeGameHtml_DistanceOnly(html) ==
    Diag(mentionsButtons(html) /\ ~hasLeftRightButtons(html), "warning", "buttons")
    \o Diag(~hasArrowKeys(html), "info", "arrowKeys")
    \o Diag(usesDistance(html), "warning", "collision")
    \o Diag(setsBodyLayout(html), "info", "bodyLayout")
    \o Diag(~hasGameArea(html), "info", "gameArea")
    \o Diag(~hasUtf8Charset(html), "warning", "charset")

analyzeGameHtml(html) ==
    Diag(mentionsButtons(html) /\ ~hasLeftRightButtons(html), "warning", "buttons")
    \o Diag(~hasArrowKeys(html), "info", "arrowKeys")
    \o Diag(~usesAABB(html) /\ usesDistance(html), "warning", "collision")
    \o Diag(setsBodyLayout(html), "info", "bodyLayout")
    \o Diag(~hasGameArea(html), "info", "gameArea")
    \o Diag(~hasUtf8Charset(html), "warning", "charset")

\* pieces of game documents the analysed inputs are put together from
Fragments ==
    { <<"<button", ">", "zuo", "</button>">>,
      <<"<button", ">", "x", "</button>", "zuo">>,
      <<"<button">>, <<">">>, <<"zuo">>,
      <<"zuoyouanniu">>,
      <<"left button">>,
      <<"ArrowLeft">>,
      <<"getBoundingClientRect()">>,
      <<"getBoundingClientRect()", ".", "top">>,
      <<"top">>,
      <<"Math.abs(", "x", ")", " ", "<", " ", "5">>,
      <<"Math.abs(", "x", ")", "<", "x">>,
      <<"Math.abs(">>, <<")", "<", "5">>,
      <<"body", " ", "{", "display:flex", "}">>,
      <<"body", "{", "}", "display:flex">>,
      <<"class=game-area">>,
      <<"<meta ", "charset=", "utf-8", ">">>,
      <<"<meta ", "charset=", "nl", "utf-8", ">">>,
      <<"charset=">>, <<"utf-8">>,
      <<"x">> }

RECURSIVE Concat(_)
Concat(fs) == IF fs = << >> THEN << >> ELSE Head(fs) \o Concat(Tail(fs))

AnalyzeInputs == {Concat(fs) : fs \in SeqsUpTo(Fragments, MaxFragments) \ {<< >>}}

----------------------------------------------------------------------------
(* Messages: event.data of a 'message' event on the host window *)

NoData == [isObject |-> FALSE, score |-> Undefined]          \* data: undefined
Obj(score) == [isObject |-> TRUE, score |-> score]           \* data: {score}

Msg(type, message, status, data) ==
    [isObject |-> TRUE, type |-> type, message |-> message,
     status |-> status, data |-> data]

\* event.data is null or a primitive
NullMsg ==
    [isObject |-> FALSE, type |-> "undefined", message |-> "",
     status |-> "undefined", data |-> NoData]

\* textContent of the game's score element
ScoreTexts ==
    { <<"zhengque", ":", "1">>,
      <<"cuowu", " ", "2">>,
      <<"jindu", ":", "1", "1">>,
      <<"zhengque", ":", "3", " ", "cuowu", ":", "1", " ", "jindu", ":", "5">>,
      <<"jindu", " ", "1", "0", " ", "zhengque", "7", "cuowu", ":", "0">>,
      <<"zhengque", ":">>,
      <<"x", "7">>,
      << >> }

\* what the injected script posts: alert, confirm, sendGameStatus
Alerts == {Msg(t, text, "undefined", NoData) :
              t \in {"game-alert", "game-confirm"}, text \in {"hi", "bye"}}
\* sendGameStatus(status, data) of the injected script
sendGameStatus(status, data) == Msg("game-status", "", status, data)

\* the MutationObserver callback on a document whose score element has the
\* given textContent
scoreObserved(textContent) == sendGameStatus("score-update", Obj(Str(textContent)))

ScoreUpdates == {scoreObserved(t) : t \in ScoreTexts}

\* what the protocol does not describe
Malformed ==
    {NullMsg,
     Msg("other", "hi", "score-update", Obj(Str(<<"cuowu", ":", "1">>))),
     Msg("undefined", "hi", "score-update", Obj(Str(<<"cuowu", ":", "1">>))),
     Msg("game-status", "hi", "other", Obj(Str(<<"cuowu", ":", "1">>))),
     Msg("game-status", "hi", "undefined", Obj(Str(<<"cuowu", ":", "1">>))),
     Msg("game-status", "", "score-update", NoData),
     Msg("game-status", "", "score-update", Obj(Undefined))}

Messages == Alerts \cup ScoreUpdates \cup Malformed

----------------------------------------------------------------------------
(* The message channel *)

Silent == [notes |-> << >>, called |-> FALSE, value |-> [correct |-> 0, wrong |-> 0, progress |-> 0],
           threw |-> FALSE, posted |-> 0]

\* message.info and message.warning exchanged
handleMessage_Swapped(m, captured) ==
    LET type == IF m.isObject THEN m.type ELSE "undefined"
    IN  IF type = "game-alert"
        THEN [Silent EXCEPT !.notes = <<[level |-> "warning", text |-> m.message]>>]
        ELSE IF type = "game-confirm"
        THEN [Silent EXCEPT !.notes = <<[level |-> "info", text |-> m.message]>>]
        ELSE IF type = "game-status" /\ m.status = "score-update"
        THEN LET r == handleScoreUpdate(m.data, captured)
             IN  [Silent EXCEPT !.called = r.called, !.value = r.value, !.threw = r.threw]
        ELSE Silent

\* the status dispatched on without looking at the type
handleMessage_AnyType(m, captured) ==
    LET type == IF m.isObject THEN m.type ELSE "undefined"
    IN  IF type = "game-alert"
        THEN [Silent EXCEPT !.notes = <<[level |-> "info", text |-> m.message]>>]
        ELSE IF type = "game-confirm"
        THEN [Silent EXCEPT !.notes = <<[level |-> "warning", text |-> m.message]>>]
        ELSE IF m.status = "score-update"
        THEN LET r == handleScoreUpdate(m.data, captured)
             IN  [Silent EXCEPT !.called = r.called, !.value = r.value, !.threw = r.threw]
        ELSE Silent

\* a game-alert message also resets the score
handleMessage_AlertResets(m, captured) ==
    LET type == IF m.isObject THEN m.type ELSE "undefined"
    IN  IF type = "game-alert"
        THEN [Silent EXCEPT !.notes = <<[level |-> "info", text |-> m.message]>>,
                            !.called = TRUE]
        ELSE IF type = "game-confirm"
        THEN [Silent EXCEPT !.notes = <<[level |-> "warning", text |-> m.message]>>]
        ELSE IF type = "game-status" /\ m.status = "score-update"
        THEN LET r == handleScoreUpdate(m.data, captured)
             IN  [Silent EXCEPT !.called = r.called, !.value = r.value, !.threw = r.threw]
        ELSE Silent

\* handleMessage(event) of a listener whose closure captured `captured` as
\* gameScore: the notifications it raises, its setGameScore call, whether it
\* throws, and how many messages it posts back
handleMessage(m, captured) ==
    LET type == IF m.isObject THEN m.type ELSE "undefined"      \* event.data?.type
    IN  IF type = "game-alert"
        THEN [Silent EXCEPT !.notes = <<[level |-> "info", text |-> m.message]>>]
        ELSE IF type = "game-confirm"
        THEN [Silent EXCEPT !.notes = <<[level |-> "warning", text |-> m.message]>>]
        ELSE IF type = "game-status" /\ m.status = "score-update"
        THEN LET r == handleScoreUpdate(m.data, captured)
             IN  [Silent EXCEPT !.called = r.called, !.value = r.value, !.threw = r.threw]
        ELSE Silent

\* the window dispatches the event to every registered listener in order;
\* of several setGameScore calls in one event the last value is the state
RECURSIVE Dispatch(_, _, _)
Dispatch(m, ls, acc) ==
    IF ls = << >> THEN acc
    ELSE LET r == handleMessage(m, Head(ls).gameScore)
         IN  Dispatch(m, Tail(ls),
                      [notes |-> acc.notes \o r.notes,
                       called |-> acc.called \/ r.called,
                       value |-> IF r.called THEN r.value ELSE acc.value,
                       threw |-> acc.threw \/ r.threw,
                       posted |-> acc.posted + r.posted])

\* setupMessageChannel(): window.addEventListener('message', handleMessage);
\* the function it returns to remove the listener is dropped by its caller
setupMessageChannel(ls, captured) == Append(ls, [gameScore |-> captured])

----------------------------------------------------------------------------
(* The script injected into the game document: dialogs *)

\* window.alert = function(msg): the message it posts to the parent and
\* what it returns
alert(msg) ==
    [message |-> Msg("game-alert", msg, "undefined", NoData),
     returned |-> "undefined"]

\* the dialog declined
confirm_Declines(msg) ==
    [message |-> Msg("game-confirm", msg, "undefined", NoData),
     returned |-> "false"]

\* window.confirm = function(msg)
confirm(msg) ==
    [message |-> Msg("game-confirm", msg, "undefined", NoData),
     returned |-> "true"]

DialogTexts == {"hi", "bye"}

----------------------------------------------------------------------------
(* The script injected into the game document: layout *)

MaxElems == 3

\* an element of the game document: whether it matches the selector
\* '#game-container, .game-area, .game-root, .game, .stage', whether it is a
\* descendant of body, its tag, its offsetWidth and offsetHeight, whether its
\* computed position is fixed, and a canvas's width and height properties
Element(sel, inBody, tag, ow, oh, fixed, cw, ch) ==
    [sel |-> sel, inBody |-> inBody, tag |-> tag, offsetWidth |-> ow,
     offsetHeight |-> oh, fixed |-> fixed, width |-> cw, height |-> ch]

Canvases ==
    { Element(FALSE, TRUE, "CANVAS", 3, 2, FALSE, 800, 600),
      Element(FALSE, TRUE, "CANVAS", 1, 3, FALSE, 100, 300),
      Element(TRUE, TRUE, "CANVAS", 2, 2, FALSE, 600, 800) }

Elements ==
    { Element(TRUE, FALSE, "BODY", 9, 9, FALSE, 0, 0),
      Element(TRUE, TRUE, "DIV", 2, 2, FALSE, 0, 0),
      Element(FALSE, TRUE, "DIV", 4, 3, FALSE, 0, 0),
      Element(FALSE, TRUE, "DIV", 2, 2, FALSE, 0, 0),
      Element(FALSE, TRUE, "DIV", 0, 3, FALSE, 0, 0),
      Element(FALSE, TRUE, "DIV", 5, 5, TRUE, 0, 0),
      Element(FALSE, TRUE, "SCRIPT", 6, 3, FALSE, 0, 0),
      Element(FALSE, TRUE, "STYLE", 0, 0, FALSE, 0, 0) } \cup Canvases

\* documents: the elements outside body's subtree come first in document order
Doms ==
    { d \in SeqsUpTo(Elements, MaxElems) :
        \A i, j \in 1..Len(d) : (i < j /\ d[i].inBody) => d[j].inBody }

\* whether an element matches a selector the script uses: the preferred
\* roots, 'canvas', and the element children of body
Matches(el, selector) ==
    CASE selector = "preferred" -> el.sel
      [] selector = "canvas" -> el.tag = "CANVAS"
      [] selector = "body > *" -> el.inBody

\* document.querySelector: the first element in document order, 0 for null
querySelector(d, selector) ==
    IF \E i \in 1..Len(d) : Matches(d[i], selector)
    THEN CHOOSE i \in 1..Len(d) :
            Matches(d[i], selector) /\ \A j \in 1..(i - 1) : ~Matches(d[j], selector)
    ELSE 0

\* the loop of pickGameRoot over document.body.querySelectorAll('*'), from
\* element i on, with the best element and its area so far
RECURSIVE LargestFrom(_, _, _, _)
LargestFrom(d, i, best, bestArea) ==
    IF i > Len(d) THEN best
    ELSE LET el == d[i]
             area == el.offsetWidth * el.offsetHeight
         IN  IF ~el.inBody THEN LargestFrom(d, i + 1, best, bestArea)
             ELSE IF el.offsetWidth = 0 \/ el.offsetHeight = 0
                  THEN LargestFrom(d, i + 1, best, bestArea)
             ELSE IF el.fixed \/ el.tag = "SCRIPT" \/ el.tag = "STYLE"
                  THEN LargestFrom(d, i + 1, best, bestArea)
             ELSE IF area > bestArea
                  THEN LargestFrom(d, i + 1, i, area)
             ELSE LargestFrom(d, i + 1, best, bestArea)

\* the heuristic before the selector
pickGameRoot_AreaFirst(d) ==
    LET best == LargestFrom(d, 1, 0, 0)
    IN  IF best # 0 THEN best
        ELSE querySelector(d, "preferred")

\* the index in d of the element chosen as the game root, 0 for none
pickGameRoot(d) ==
    LET prefer == querySelector(d, "preferred")
        best == LargestFrom(d, 1, 0, 0)
    IN  IF prefer # 0 THEN prefer
        ELSE IF best # 0 THEN best
        ELSE querySelector(d, "body > *")

MinViewport == 320
DefaultWidth == 800
DefaultHeight == 600

Max(a, b) == IF a > b THEN a ELSE b
Min(a, b) == IF a < b THEN a ELSE b

\* Math.round(p / q) for p >= 0, q > 0, on the exact quotient
Round(p, q) == (2 * p + q) \div (2 * q)

\* Math.max(320, Math.floor(window.innerWidth * 0.92)) and the same of
\* innerHeight * 0.88
Budget(w) ==
    [vw |-> Max(MinViewport, (92 * w.innerWidth) \div 100),
     vh |-> Max(MinViewport, (88 * w.innerHeight) \div 100)]

Window(w, h) == [innerWidth |-> w, innerHeight |-> h]

Windows == { Window(w, h) : w \in {300, 1087}, h \in {300, 398, 796} }

NoLayout ==
    [ran |-> FALSE, root |-> 0, maxWidth |-> 0, maxHeight |-> 0, canvas |-> 0,
     canvasWidth |-> 0, canvasHeight |-> 0, rootWidth |-> 0]

\* v || fallback
Or(v, fallback) == IF v # 0 THEN v ELSE fallback

\* the styles handleResize sets: the root, its maxWidth and maxHeight, the
\* canvas and its style width and height, or the root's style width; `old`
\* when there is no root. A canvas's width and height are positive here, so
\* `|| 800` and `|| 600` stay unused; a root's scrollWidth and scrollHeight
\* are taken to be its offset size
resizeStyles(d, w, old) ==
    LET root == pickGameRoot(d)
        b == Budget(w)
        canvas == IF root # 0 /\ d[root].tag = "CANVAS" THEN root
                  ELSE querySelector(d, "canvas")
    IN  IF root = 0 THEN old
        ELSE IF canvas # 0
        THEN LET cw == Or(d[canvas].width, DefaultWidth)
                 ch == Or(d[canvas].height, DefaultHeight)
                 targetWidth == Min(b.vw, Round(b.vh * cw, ch))
                 targetHeight == Round(targetWidth * ch, cw)
             IN  [ran |-> TRUE, root |-> root, maxWidth |-> b.vw, maxHeight |-> b.vh,
                  canvas |-> canvas, canvasWidth |-> targetWidth,
                  canvasHeight |-> targetHeight, rootWidth |-> 0]
        ELSE LET rw == Or(d[root].offsetWidth, DefaultWidth)
                 rh == Or(d[root].offsetHeight, DefaultHeight)
             IN  [ran |-> TRUE, root |-> root, maxWidth |-> b.vw, maxHeight |-> b.vh,
                  canvas |-> 0, canvasWidth |-> 0, canvasHeight |-> 0,
                  rootWidth |-> Min(b.vw, Round(b.vh * rw, Or(rh, 1)))]

----------------------------------------------------------------------------
(* The component *)

ZeroScore == [correct |-> 0, wrong |-> 0, progress |-> 0]
NoHandler == [set |-> FALSE, gameScore |-> ZeroScore]
NoDownload == [any |-> FALSE, html |-> << >>]
NoCall == [fn |-> "none", arg |-> "", returned |-> "undefined"]
NoEvent ==
    [any |-> FALSE, msg |-> NullMsg, ran |-> 0, before |-> ZeroScore,
     notes |-> << >>, threw |-> FALSE, posted |-> 0]

Docs ==
    { << >>,
      <<"<head>", "</head>", "<body>", "x">>,
      <<"<body>", "x">> }

InitHost(inputs) ==
    /\ gameData \in inputs
    /\ effectPending = TRUE
    /\ isLoading = FALSE
    /\ gameStatus = "empty"
    /\ gameScore = ZeroScore
    /\ suggestions = << >>
    /\ srcdoc = << >>
    /\ onload = NoHandler
    /\ loadPending = FALSE
    /\ listeners = << >>
    /\ channel = << >>
    /\ delivered = NoEvent
    /\ loads = 0
    /\ posts = 0
    /\ isFullscreen = FALSE
    /\ fullscreenElement = FALSE
    /\ fullscreenEvent = FALSE
    /\ download = NoDownload

InitWith(inputs) ==
    /\ InitHost(inputs)
    /\ dom = << >>
    /\ win = Window(1087, 796)
    /\ layout = NoLayout
    /\ lastCall = NoCall

Init == InitWith(Docs)

\* the body of useEffect(..., [gameData]), run with gameData.html = html
LoadGameEffect(html) ==
    IF html # << >>
    THEN /\ isLoading' = TRUE
         /\ gameStatus' = "loading"
         /\ suggestions' = analyzeGameHtml(html)
         /\ srcdoc' = injectGameEnhancements(html)
         /\ onload' = [set |-> TRUE, gameScore |-> gameScore]
         /\ loadPending' = TRUE
         /\ loads' = loads + 1
    ELSE /\ gameStatus' = "empty"
         /\ srcdoc' = << >>
         /\ onload' = NoHandler
         /\ loadPending' = FALSE
         /\ UNCHANGED <<isLoading, suggestions, loads>>

\* the effect's first run, after the component is mounted
LoadGame ==
    /\ effectPending
    /\ effectPending' = FALSE
    /\ LoadGameEffect(gameData)
    /\ UNCHANGED <<gameData, gameScore, listeners, channel, delivered, posts>>
    /\ UNCHANGED <<chromeVars, contentVars>>

\* the parent renders the component with another gameData and the effect
\* runs again; the iframe is mounted exactly while gameData.html is truthy,
\* so a render without html drops the iframe with its handler and its load
Render(d) ==
    /\ ~effectPending
    /\ d # << >> => loads < MaxLoads
    /\ gameData' = d
    /\ LoadGameEffect(d)
    /\ UNCHANGED <<effectPending, gameScore, listeners, channel, delivered, posts>>
    /\ UNCHANGED <<chromeVars, contentVars>>

\* the iframe's load event: iframeRef.current.onload
IframeLoad ==
    /\ ~effectPending
    /\ loadPending
    /\ loadPending' = FALSE
    /\ IF onload.set
       THEN /\ isLoading' = FALSE
            /\ gameStatus' = "ready"
            /\ listeners' = setupMessageChannel(listeners, onload.gameScore)
       ELSE UNCHANGED <<isLoading, gameStatus, listeners>>
    /\ UNCHANGED <<gameData, effectPending, gameScore, suggestions, srcdoc, onload,
                   channel, delivered, loads, posts>>
    /\ UNCHANGED <<chromeVars, contentVars>>

\* the refresh button
handleRefresh ==
    /\ ~effectPending
    /\ loads < MaxLoads
    /\ IF gameData # << >>
       THEN /\ isLoading' = TRUE
            /\ srcdoc' = injectGameEnhancements(gameData)
            /\ loadPending' = TRUE
            /\ loads' = loads + 1
       ELSE UNCHANGED <<isLoading, srcdoc, loadPending, loads>>
    /\ UNCHANGED <<gameData, effectPending, gameStatus, gameScore, suggestions, onload,
                   listeners, channel, delivered, posts>>
    /\ UNCHANGED <<chromeVars, contentVars>>

\* the document in the iframe calls window.parent.postMessage(m, '*')
ContentPost(m) ==
    /\ ~effectPending
    /\ srcdoc # << >>
    /\ Len(channel) < MaxInFlight
    /\ posts < MaxPosts
    /\ channel' = Append(channel, m)
    /\ posts' = posts + 1
    /\ UNCHANGED <<gameData, effectPending, isLoading, gameStatus, gameScore, suggestions,
                   srcdoc, onload, loadPending, listeners, delivered, loads>>
    /\ UNCHANGED <<chromeVars, contentVars>>

\* the host window's 'message' event for the oldest message in flight.
\* `delivered` records the event: its data, the number of listeners that ran,
\* gameScore before it, the notifications the listeners raised (message.info,
\* message.warning), whether one threw, and the messages they posted back
Deliver ==
    /\ ~effectPending
    /\ channel # << >>
    /\ LET m == Head(channel)
           r == Dispatch(m, listeners, [Silent EXCEPT !.value = gameScore])
       IN  /\ channel' = Tail(channel)
           /\ gameScore' = r.value
           /\ delivered' = [any |-> TRUE, msg |-> m, ran |-> Len(listeners),
                            before |-> gameScore, notes |-> r.notes,
                            threw |-> r.threw, posted |-> r.posted]
    /\ UNCHANGED <<gameData, effectPending, isLoading, gameStatus, suggestions, srcdoc,
                   onload, loadPending, listeners, loads, posts>>
    /\ UNCHANGED <<chromeVars, contentVars>>

\* handleResize() of the injected script, run by the document's load event,
\* the timer set on DOMContentLoaded and the ResizeObserver on body
handleResize ==
    /\ ~effectPending
    /\ srcdoc # << >>
    /\ layout' = [resizeStyles(dom, win, layout) EXCEPT !.ran = TRUE]
    /\ UNCHANGED <<hostVars, chromeVars, dom, win, lastCall>>

\* the iframe's window gets another size: its 'resize' event runs handleResize
WindowResize(w) ==
    /\ ~effectPending
    /\ srcdoc # << >>
    /\ w # win
    /\ win' = w
    /\ layout' = [resizeStyles(dom, w, layout) EXCEPT !.ran = TRUE]
    /\ UNCHANGED <<hostVars, chromeVars, dom, lastCall>>

\* the fullscreen button: requestFullscreen() on the container, which the
\* browser grants or refuses, or document.exitFullscreen(); a change of
\* document.fullscreenElement queues a fullscreenchange event
toggleFullscreen ==
    /\ ~effectPending
    /\ IF ~isFullscreen
       THEN \E granted \in BOOLEAN :
                fullscreenElement' = (fullscreenElement \/ granted)
       ELSE fullscreenElement' = FALSE
    /\ fullscreenEvent' = (fullscreenEvent \/ fullscreenElement' # fullscreenElement)
    /\ UNCHANGED <<hostVars, contentVars, isFullscreen, download>>

\* handleFullscreenChange: the document's fullscreenchange listener
handleFullscreenChange ==
    /\ ~effectPending
    /\ fullscreenEvent
    /\ fullscreenEvent' = FALSE
    /\ isFullscreen' = fullscreenElement
    /\ UNCHANGED <<hostVars, contentVars, fullscreenElement, download>>

\* the export button: the game's html as it was given, not the enhanced one
handleExport ==
    /\ ~effectPending
    /\ IF gameData # << >>
       THEN download' = [any |-> TRUE, html |-> gameData]
       ELSE UNCHANGED download
    /\ UNCHANGED <<hostVars, contentVars, isFullscreen, fullscreenElement, fullscreenEvent>>

\* the game calls alert(msg) or confirm(msg)
GameCalls(fn, msg) ==
    /\ ~effectPending
    /\ srcdoc # << >>
    /\ lastCall.returned # "pending"
    /\ posts < MaxPosts
    /\ lastCall' = [fn |-> fn, arg |-> msg, returned |-> "pending"]
    /\ UNCHANGED <<hostVars, chromeVars, dom, win, layout>>

\* the body of the override runs: postMessage to the parent, then return
DialogReturns ==
    /\ lastCall.returned = "pending"
    /\ LET r == IF lastCall.fn = "alert" THEN alert(lastCall.arg)
                ELSE confirm(lastCall.arg)
       IN  /\ channel' = Append(channel, r.message)
           /\ posts' = posts + 1
           /\ lastCall' = [lastCall EXCEPT !.returned = r.returned]
    /\ UNCHANGED <<gameData, effectPending, isLoading, gameStatus, gameScore,
                   suggestions, srcdoc, onload, loadPending, listeners, delivered,
                   loads>>
    /\ UNCHANGED <<chromeVars, dom, win, layout>>

Next ==
    \/ LoadGame
    \/ \E d \in Docs : Render(d)
    \/ IframeLoad
    \/ handleRefresh
    \/ \E m \in Messages : ContentPost(m)
    \/ Deliver

Spec == Init /\ [][Next]_vars

\* the injector and the analyzer on every bounded input: the component is
\* mounted with the input as gameData.html, loads it and may refresh it
NextLoadOnly ==
    \/ LoadGame
    \/ handleRefresh

SpecInject == InitWith(InjectInputs) /\ [][NextLoadOnly]_vars

SpecAnalyze == InitWith(AnalyzeInputs) /\ [][NextLoadOnly]_vars

\* the component with its toolbar: loading, refreshing, fullscreen and export
\* next to the messages of the game
FrameMessages ==
    { Msg("game-alert", "hi", "undefined", NoData),
      Msg("game-confirm", "bye", "undefined", NoData),
      scoreObserved(<<"cuowu", " ", "2">>),
      scoreObserved(<<"x", "7">>) }

NextFrame ==
    \/ LoadGame
    \/ \E d \in Docs : Render(d)
    \/ IframeLoad
    \/ handleRefresh
    \/ \E m \in FrameMessages : ContentPost(m)
    \/ Deliver
    \/ toggleFullscreen
    \/ handleFullscreenChange
    \/ handleExport

SpecFrame == Init /\ [][NextFrame]_vars

\* a game that calls alert and confirm, next to the host that loads it and
\* handles its messages; a call that has begun runs to its end
NextDialog ==
    \/ LoadGame
    \/ IframeLoad
    \/ \E fn \in {"alert", "confirm"}, msg \in DialogTexts : GameCalls(fn, msg)
    \/ DialogReturns
    \/ Deliver

SpecDialog ==
    InitWith({<<"<body>", "x">>}) /\ [][NextDialog]_vars /\ WF_vars(DialogReturns)

\* the layout routine of the injected script on every bounded document and
\* window size: the component loads a game, whose document is `dom`
InitLayout ==
    /\ InitHost({<<"<body>", "x">>})
    /\ dom \in Doms
    /\ win \in Windows
    /\ layout = NoLayout
    /\ lastCall = NoCall

NextLayout ==
    \/ LoadGame
    \/ handleResize
    \/ \E w \in Windows : WindowResize(w)

SpecLayout == InitLayout /\ [][NextLayout]_vars

----------------------------------------------------------------------------
(* Properties *)

\* the last event was a game-status / score-update message carrying a score
\* text, and at least one listener handled it
ScoreTextHandled ==
    /\ delivered.any
    /\ delivered.ran > 0
    /\ delivered.msg.isObject
    /\ delivered.msg.type = "game-status"
    /\ delivered.msg.status = "score-update"
    /\ delivered.msg.data.isObject
    /\ delivered.msg.data.score.defined

LastText == delivered.msg.data.score.text

\* last-known-value semantics: a field takes the number after its label, or
\* keeps the value it had
LastKnown(prev, t) ==
    [correct |-> IF match(t, "zhengque").found
                 THEN parseInt(match(t, "zhengque").capture) ELSE prev.correct,
     wrong |-> IF match(t, "cuowu").found
               THEN parseInt(match(t, "cuowu").capture) ELSE prev.wrong,
     progress |-> IF match(t, "jindu").found
                  THEN parseInt(match(t, "jindu").capture) ELSE prev.progress]

\* C1: after a score-update message each field of gameScore is the number
\* the message gives for that field's label, and a field whose label the
\* message does not give keeps the value it had just before the message.
C1_LastKnownValue ==
    ScoreTextHandled => gameScore = LastKnown(delivered.before, LastText)

\* C2: a score-update message whose text matches none of the three label
\* patterns leaves gameScore as it was.
C2_NonMatchingIdempotent ==
    (ScoreTextHandled /\ \A l \in Labels : ~match(LastText, l).found)
        => gameScore = delivered.before

\* C3: at most one message listener is registered at any time, and a
\* delivered alert or confirm message raises exactly one notification.
C3_SingleListener ==
    /\ Len(listeners) <= 1
    /\ (delivered.any /\ delivered.ran > 0 /\ delivered.msg.isObject
        /\ delivered.msg.type \in {"game-alert", "game-confirm"})
           => Len(delivered.notes) = 1

\* the document was loaded: srcdoc and suggestions are those of gameData
Loaded == ~effectPending /\ gameData # << >>

\* the output is the input with `fragment` put in at one point
InsertedOnce(input, output, fragment) ==
    \E p \in 0..Len(input) :
        output = SubSeq(input, 1, p) \o fragment \o SubSeq(input, p + 1, Len(input))

RemovalYieldsInput ==
    \/ InsertedOnce(gameData, srcdoc, enhancements)
    \/ /\ ~includes(gameData, "</head>")
       /\ includes(gameData, "<body>")
       /\ InsertedOnce(gameData, srcdoc, <<"<head>">> \o enhancements \o <<"</head>">>)

\* C4 as stated: for every input the output contains the bundle exactly
\* once, and removing the inserted fragment yields the input.
C4_BundleExactlyOnce ==
    Loaded => /\ Cardinality(Occurrences(srcdoc, enhancements)) = 1
              /\ RemovalYieldsInput

\* C4 (amended): for every input the output is the input with one fragment
\* inserted at one point (the bundle, or in the body tier the bundle wrapped
\* in a head element), so it contains the bundle; it contains it exactly
\* once when the input holds no copy of the bundle's script and style text.
C4_ContentPreserved ==
    Loaded => /\ RemovalYieldsInput
              /\ Occurrences(srcdoc, enhancements) # {}
              /\ "enh" \notin Range(gameData)
                    => Cardinality(Occurrences(srcdoc, enhancements)) = 1

C4_Witness ==
    /\ Loaded
    /\ ~includes(gameData, "</head>")
    /\ gameData[Len(gameData)] = "<body>"
    /\ Len(gameData) = 3
    /\ "nl4" \in Range(gameData)

\* C5: with a closing head marker the bundle goes immediately before the
\* first one, whether or not a body marker is present; else with an opening
\* body marker a head element wrapping the bundle goes immediately before
\* the first one; else the output is the bundle followed by the input.
C5_ThreeTier ==
    Loaded =>
        LET h == gameData
            FirstAt(marker) ==
                CHOOSE i \in 1..Len(h) : h[i] = marker /\ \A k \in 1..(i - 1) : h[k] # marker
        IN  IF \E i \in 1..Len(h) : h[i] = "</head>"
            THEN LET i == FirstAt("</head>")
                 IN  srcdoc = SubSeq(h, 1, i - 1) \o enhancements \o SubSeq(h, i, Len(h))
            ELSE IF \E i \in 1..Len(h) : h[i] = "<body>"
            THEN LET i == FirstAt("<body>")
                 IN  srcdoc = SubSeq(h, 1, i - 1) \o <<"<head>">> \o enhancements
                                 \o <<"</head>">> \o SubSeq(h, i, Len(h))
            ELSE srcdoc = enhancements \o h

C5_Witness ==
    /\ Loaded
    /\ Len(gameData) = 3
    /\ gameData[1] = "<body>"
    /\ gameData[3] = "</head>"

\* C6: correct and wrong are never negative and progress is within 0..10.
C6_ScoreRange ==
    /\ gameScore.correct >= 0
    /\ gameScore.wrong >= 0
    /\ gameScore.progress \in 0..10

\* the shapes the bridge is to drop: event.data no object, an unknown or
\* missing type, a status other than score-update, a score-update without
\* data or without a score field
Dropped(m) ==
    \/ ~m.isObject
    \/ m.type \notin {"game-alert", "game-confirm", "game-status"}
    \/ m.type = "game-status" /\ m.status # "score-update"
    \/ m.type = "game-status" /\ m.status = "score-update"
          /\ (~m.data.isObject \/ ~m.data.score.defined)

\* C7: a message of a dropped shape raises no exception and no notification
\* and leaves gameScore unchanged.
C7_MalformedDropped ==
    (delivered.any /\ Dropped(delivered.msg))
        => /\ ~delivered.threw
           /\ delivered.notes = << >>
           /\ gameScore = delivered.before

C7_Witness ==
    /\ delivered.any
    /\ delivered.ran > 0
    /\ Dropped(delivered.msg)
    /\ delivered.msg.isObject
    /\ delivered.msg.type = "other"
    /\ gameScore # ZeroScore

\* C8: every listener turns a game-alert into an info notification with the
\* message's text and a game-confirm into a warning notification with its
\* text, neither touching gameScore; a game-status / score-update raises no
\* notification and its text reaches the parser (a field whose label it
\* gives takes that number); the host posts nothing back.
C8_Dispatch ==
    (delivered.any /\ delivered.msg.isObject) =>
        LET m == delivered.msg
            Copies(level) == [i \in 1..delivered.ran |-> [level |-> level, text |-> m.message]]
        IN  /\ delivered.posted = 0
            /\ m.type = "game-alert"
                  => delivered.notes = Copies("info") /\ gameScore = delivered.before
            /\ m.type = "game-confirm"
                  => delivered.notes = Copies("warning") /\ gameScore = delivered.before
            /\ (m.type = "game-status" /\ m.status = "score-update")
                  => /\ delivered.notes = << >>
                     /\ ScoreTextHandled =>
                           /\ match(LastText, "zhengque").found =>
                                 gameScore.correct = parseInt(match(LastText, "zhengque").capture)
                           /\ match(LastText, "cuowu").found =>
                                 gameScore.wrong = parseInt(match(LastText, "cuowu").capture)
                           /\ match(LastText, "jindu").found =>
                                 gameScore.progress = parseInt(match(LastText, "jindu").capture)

C8_Witness ==
    /\ delivered.any
    /\ delivered.ran > 0
    /\ delivered.msg.isObject
    /\ delivered.msg.type = "game-confirm"
    /\ delivered.msg.message = "bye"
    /\ gameScore.wrong = 2

CharsetDiags == {i \in 1..Len(suggestions) : suggestions[i].text = "charset"}

\* a <meta charset=...> tag
HasMetaCharset(h) ==
    \E i \in 1..(Len(h) - 1) : h[i] = "<meta " /\ h[i + 1] = "charset="

\* a <meta charset=...> tag whose value, after optional white space, is utf-8
DeclaresUtf8(h) ==
    \E i \in 1..(Len(h) - 1) :
        /\ h[i] = "<meta "
        /\ h[i + 1] = "charset="
        /\ LET j == RunEnd(h, i + 2, WhiteSpace)
           IN  j <= Len(h) /\ h[j] = "utf-8"

\* C9 as stated: without a <meta charset> tag there is exactly one charset
\* diagnostic, a warning; with a UTF-8 charset declaration there is none.
C9_MetaCharset ==
    Loaded =>
        /\ ~HasMetaCharset(gameData)
              => /\ Cardinality(CharsetDiags) = 1
                 /\ \A i \in CharsetDiags : suggestions[i].level = "warning"
        /\ DeclaresUtf8(gameData) => CharsetDiags = {}

\* C9 (amended): there is exactly one charset diagnostic, a warning, when
\* the text holds no "charset=" followed on the same line by "utf-8" (so
\* whenever either is absent), and none when it holds one, as in a
\* <meta charset="UTF-8"> written on one line.
C9_CharsetRule ==
    Loaded =>
        LET h == gameData
            sameLine == \E i \in 1..Len(h) : \E j \in (i + 1)..Len(h) :
                           /\ h[i] = "charset="
                           /\ h[j] = "utf-8"
                           /\ "nl" \notin {h[m] : m \in (i + 1)..(j - 1)}
        IN  /\ \A i \in CharsetDiags : suggestions[i].level = "warning"
            /\ Cardinality(CharsetDiags) = IF sameLine THEN 0 ELSE 1
            /\ ("charset=" \notin Range(h) \/ "utf-8" \notin Range(h))
                  => Cardinality(CharsetDiags) = 1

C9_Witness ==
    /\ Loaded
    /\ "charset=" \notin Range(gameData)
    /\ "utf-8" \in Range(gameData)
    /\ Cardinality(CharsetDiags) = 1
    /\ \E i \in 1..Len(suggestions) : suggestions[i].text = "buttons"

RuleNo(text) ==
    CASE text = "buttons" -> 1 [] text = "arrowKeys" -> 2 [] text = "collision" -> 3
      [] text = "bodyLayout" -> 4 [] text = "gameArea" -> 5 [] text = "charset" -> 6

\* what a rule looks for, each by itself
Fires(rule, h) ==
    CASE rule = 1 -> mentionsButtons(h) /\ ~hasLeftRightButtons(h)
      [] rule = 2 -> ~hasArrowKeys(h)
      [] rule = 3 -> ~usesAABB(h) /\ usesDistance(h)
      [] rule = 4 -> setsBodyLayout(h)
      [] rule = 5 -> ~hasGameArea(h)
      [] rule = 6 -> ~hasUtf8Charset(h)

\* C10: the diagnostics come in rule order 1 to 6, at most one per rule (so
\* at most six), and a rule's diagnostic is there exactly when that rule's
\* own condition holds of the text, whatever the other rules found.
C10_OrderStable ==
    Loaded =>
        /\ Len(suggestions) <= 6
        /\ \A i \in 1..Len(suggestions) : \A j \in (i + 1)..Len(suggestions) :
              RuleNo(suggestions[i].text) < RuleNo(suggestions[j].text)
        /\ \A rule \in 1..6 :
              (\E i \in 1..Len(suggestions) : RuleNo(suggestions[i].text) = rule)
                  <=> Fires(rule, gameData)

C10_Witness ==
    /\ Loaded
    /\ Len(suggestions) = 5
    /\ suggestions[1].text = "buttons"
    /\ suggestions[3].text = "bodyLayout"

\* the elements the area heuristic considers: rendered descendants of body
\* that are not fixed and are neither SCRIPT nor STYLE
Eligible(d) ==
    { i \in 1..Len(d) :
        /\ d[i].inBody
        /\ d[i].offsetWidth > 0 /\ d[i].offsetHeight > 0
        /\ ~d[i].fixed
        /\ d[i].tag \notin {"SCRIPT", "STYLE"} }

Area(el) == el.offsetWidth * el.offsetHeight
Preferred(d) == { i \in 1..Len(d) : d[i].sel }
InBody(d) == { i \in 1..Len(d) : d[i].inBody }
First(S) == CHOOSE i \in S : \A j \in S : i <= j

\* C11: the game root is chosen by the first tier that applies: an element
\* matching the canonical selector when one exists; otherwise the largest
\* rendered, non-fixed, non-script, non-style descendant of body; otherwise
\* the first element child of body; otherwise none, and the layout routine
\* sets no style
C11_RootTiers ==
    layout.ran =>
        IF Preferred(dom) # {}
        THEN layout.root = First(Preferred(dom))
        ELSE IF Eligible(dom) # {}
        THEN /\ layout.root \in Eligible(dom)
             /\ \A j \in Eligible(dom) :
                    /\ Area(dom[j]) <= Area(dom[layout.root])
                    /\ Area(dom[j]) = Area(dom[layout.root]) => layout.root <= j
        ELSE IF InBody(dom) # {}
        THEN layout.root = First(InBody(dom))
        ELSE layout = [NoLayout EXCEPT !.ran = TRUE]

\* the heuristic chose a root although a larger fixed element and a larger
\* script are in the document
C11_Witness ==
    /\ layout.ran
    /\ Preferred(dom) = {}
    /\ layout.root \in Eligible(dom)
    /\ \E j \in 1..Len(dom) : dom[j].fixed /\ Area(dom[j]) > Area(dom[layout.root])
    /\ \E j \in Eligible(dom) : Area(dom[j]) < Area(dom[layout.root])

\* C12: whenever the layout routine has scaled a canvas, the canvas's style
\* width is at most vw and its style height is at most vh, for the window
\* size the routine ran with
C12_WithinBudget ==
    (layout.ran /\ layout.canvas # 0) =>
        /\ layout.canvasWidth <= Budget(win).vw
        /\ layout.canvasHeight <= Budget(win).vh

\* score texts carrying all three labelled numbers, with the numbers they carry
FullTexts ==
    { [text |-> <<"zhengque", ":", "3", " ", "cuowu", ":", "1", " ", "jindu", ":", "5">>,
       score |-> [correct |-> 3, wrong |-> 1, progress |-> 5]],
      [text |-> <<"jindu", " ", "1", "0", " ", "zhengque", "7", "cuowu", ":", "0">>,
       score |-> [correct |-> 7, wrong |-> 0, progress |-> 10]] }

\* C13: once a score-update message whose score text carries all three
\* labelled numbers has been handled, gameScore is exactly those three
\* numbers, whatever it was before
C13_FullScoreText ==
    \A f \in FullTexts :
        (ScoreTextHandled /\ LastText = f.text) => gameScore = f.score

C13_Witness ==
    /\ ScoreTextHandled
    /\ \E f \in FullTexts : LastText = f.text /\ gameScore = f.score
    /\ delivered.before.wrong = 2

\* the oldest message in flight is a score update that reaches
\* handleScoreUpdate's setGameScore in some registered listener
ScoreParserRuns ==
    /\ channel # << >>
    /\ listeners # << >>
    /\ Head(channel).isObject
    /\ Head(channel).type = "game-status"
    /\ Head(channel).status = "score-update"
    /\ Head(channel).data.isObject
    /\ Truthy(Head(channel).data.score)

\* C14: gameScore changes only in a step that handles a score-update
\* message carrying a score: loading and refreshing a game, the iframe's load
\* event, analysing the html, toggling fullscreen, exporting, and game-alert
\* and game-confirm messages leave it as it is
C14_ScoreFrame ==
    [][gameScore' # gameScore => (ScoreParserRuns /\ channel' = Tail(channel))]_vars

\* a score other than zero is still there after a second load, an export,
\* a switch to fullscreen and a handled alert
C14_Witness ==
    /\ gameScore # ZeroScore
    /\ loads = 2
    /\ gameStatus = "ready"
    /\ isFullscreen
    /\ download.any
    /\ delivered.ran > 0
    /\ delivered.msg.type = "game-alert"

Pending == lastCall.returned = "pending"

\* C15: a call of the confirm override posts exactly one game-confirm
\* message carrying its text and returns true, a call of the alert override
\* posts exactly one game-alert message carrying its text and returns
\* undefined; nothing else is posted, and every call that began returns,
\* whatever the host does
C15_Dialogs ==
    /\ [][(Pending /\ ~Pending') =>
            /\ posts' = posts + 1
            /\ lastCall'.fn = lastCall.fn /\ lastCall'.arg = lastCall.arg
            /\ IF lastCall.fn = "confirm"
               THEN /\ channel' = Append(channel, Msg("game-confirm", lastCall.arg,
                                                       "undefined", NoData))
                    /\ lastCall'.returned = "true"
               ELSE /\ channel' = Append(channel, Msg("game-alert", lastCall.arg,
                                                       "undefined", NoData))
                    /\ lastCall'.returned = "undefined"]_vars
    /\ [][posts' # posts => (Pending /\ ~Pending')]_vars
    /\ (Pending ~> ~Pending)

\* confirm returned true while no listener was registered on the host and
\* its message was still in flight
C15_Witness ==
    /\ lastCall.fn = "confirm"
    /\ lastCall.returned = "true"
    /\ listeners = << >>
    /\ channel # << >>
    /\ channel[Len(channel)] = Msg("game-confirm", lastCall.arg, "undefined", NoData)

CollisionDiags == {i \in 1..Len(suggestions) : suggestions[i].text = "collision"}

\* C16: after the analysis the suggestions hold the collision diagnostic,
\* once and as a warning, exactly when the html has a distance check and no
\* bounding-box check; with neither, with both, or with a bounding-box check
\* alone they hold none
C16_CollisionRule ==
    Loaded =>
        IF usesDistance(gameData) /\ ~usesAABB(gameData)
        THEN /\ Cardinality(CollisionDiags) = 1
             /\ \A i \in CollisionDiags : suggestions[i].level = "warning"
        ELSE CollisionDiags = {}

\* a distance check next to a bounding-box check: no warning
C16_Witness ==
    /\ Loaded
    /\ usesDistance(gameData)
    /\ usesAABB(gameData)
    /\ CollisionDiags = {}

\* C17: every alert, confirm or score-update message of the game that
\* reaches the host window finds a registered listener
C17_NoEarlyLoss ==
    (delivered.any /\ delivered.msg \in Alerts \cup ScoreUpdates) => delivered.ran > 0

\* C18: isLoading is true only while a load of the iframe is pending, and
\* never while gameStatus is 'empty'
C18_LoadingOnlyWhilePending ==
    /\ isLoading => loadPending
    /\ gameStatus = "empty" => ~isLoading

====
